---------------------------- MODULE Spec2Model ----------------------------
(***************************************************************************)
(* Geometrical Segmentation Evaluation Tool (eval_geom.py).                *)
(*                                                                         *)
(* The evaluation pipeline of main(): two lists of annotations (reference  *)
(* and test) -> weight (overlap) matrix -> margin vectors -> link matrix   *)
(* -> the nine counts Tc, To, Tu, Co, Cu, Cm, Cf, Cr, Ct.                  *)
(*                                                                         *)
(* Geometry.  The Polygon library is external to the repository.  A shape  *)
(* is modelled as a finite set of unit cells of the image plane: the       *)
(* intersection of two shapes is the intersection of their cell sets and   *)
(* the area of a shape is the number of its cells.  Areas are therefore    *)
(* integers, and the float quotients the code compares with its thresholds *)
(* are compared exactly by cross-multiplication (see RatioGE, RatioGT).    *)
(*                                                                         *)
(* Containers.  A Python list or a numpy vector of length n is a function  *)
(* on 0..n-1.  A numpy matrix is a record [shape, cell]: numpy keeps the   *)
(* shape (n, m) of a matrix even when n = 0 or m = 0, and the code reads   *)
(* it back with .shape, so the shape is stored next to the cells.          *)
(***************************************************************************)
EXTENDS Integers, FiniteSets, Sequences, TLC

VARIABLES
    pc,                 \* position of main(): the next stage to run
    ref_data_vect,      \* reference annotations (after the type filter)
    test_data_vect,     \* test annotations (after the type filter)
    weight_mat,         \* overlap matrix W
    ref_margin_vect,    \* row sums of W
    test_margin_vect,   \* column sums of W
    link_mat,           \* boolean link matrix L
    result,             \* the metrics record
    args,               \* the parsed command line (type_restriction)
    ref_input_vect,     \* reference annotations as loaded
    test_input_vect,    \* test annotations as loaded
    loader,             \* loadWithAnyDriver: its locals and its outcome
    handler             \* _catinfoContentHandler: the fields of the object

vars == << pc, ref_data_vect, test_data_vect, weight_mat, ref_margin_vect,
           test_margin_vect, link_mat, result, args, ref_input_vect,
           test_input_vect, loader, handler >>

---------------------------------------------------------------------------
(* Bounds of the model *)

\* Pipeline runs: longest reference list, longest test list, cells of the plane.
MaxRef == 2
MaxTest == 2
NumCells == 2

\* Link classifier alone: most cells of the overlap matrix, largest total overlap.
MaxLinkCells == 4
MaxTotalOverlap == 11

\* Metric aggregator alone: most rows and most columns of the link matrix.
MaxDim == 3
\* Largest length of each argument of compute_link_mat when the five lengths
\* are chosen independently.
MaxArgLen == 2
\* Stages run cell by cell in any order: most cells of the matrices.
MaxParCells == 2
\* Type filter: longest loaded list.
MaxInput == 2
\* File loading: longest list of input drivers.
MaxDrivers == 3
\* XML events: deepest nesting of elements, most annotations committed, largest
\* value of the coin counter cAutoId.
MaxDepth == 3
MaxAnnots == 1
MaxAutoId == 1

---------------------------------------------------------------------------
(* Program constants: eval_geom.py lines 119-121, in hundredths *)

thresholdRelative == 20
threshold_ref == 50
threshold_test == 50

---------------------------------------------------------------------------
(* Containers *)

\* A Python name that is not bound yet.
None == "None"

\* len(v) of a list or vector.
len(v) == Cardinality(DOMAIN v)

\* The lists of length n over the set S.
Lists(S, n) == [0 .. n - 1 -> S]

\* range(n)
range(n) == 0 .. n - 1

\* A matrix np.empty((n, m)) is built with its shape; its double loop then
\* assigns every cell [i, j], each independently of the others.
reflen(mat) == mat.shape[1]
testlen(mat) == mat.shape[2]

---------------------------------------------------------------------------
(* Geometry: shapes as sets of unit cells *)

Cells == 1 .. NumCells
Shapes == SUBSET Cells

\* SegmentationAnnotation; only the shape is read by the evaluation.
Annotations == [shape : Shapes]

\* ref.shape & test.shape
Intersection(s, t) == s \cap t

\* shape.area()
area(s) == Cardinality(s)

---------------------------------------------------------------------------
(* Float quotients against a threshold given in hundredths.                *)
(* num / den >= thr/100 and num / den > thr/100 for num > 0, den >= 0.     *)
(* All operands are small integers, so the float quotient is the correctly *)
(* rounded rational and the comparison with the literal 0.2 or 0.5 agrees  *)
(* with the exact one.  den = 0 with num > 0 gives numpy's inf, which is   *)
(* above every threshold, as is the cross-multiplied form.                 *)

RatioGE(num, den, thr) == num * 100 >= thr * den
RatioGT(num, den, thr) == num * 100 > thr * den

---------------------------------------------------------------------------
(* SHAPE MATCHING FUNCTIONS *)

\* compute_weight_mat
compute_weight_mat(refs, tests) ==
    [shape |-> << len(refs), len(tests) >>,
     cell  |-> [ij \in range(len(refs)) \X range(len(tests)) |->
                  area(Intersection(refs[ij[1]].shape, tests[ij[2]].shape))]]

\* weight_mat[i, :].sum(), summed from column j on
RECURSIVE RowSum(_, _, _)
RowSum(W, i, j) ==
    IF j >= testlen(W) THEN 0 ELSE W.cell[<< i, j >>] + RowSum(W, i, j + 1)

\* weight_mat[:, j].sum(), summed from row i on
RECURSIVE ColSum(_, _, _)
ColSum(W, i, j) ==
    IF i >= reflen(W) THEN 0 ELSE W.cell[<< i, j >>] + ColSum(W, i + 1, j)

\* Variant: the row sum leaves out the first column.
compute_ref_margin_vect_skip_first(W) ==
    [i \in range(reflen(W)) |-> RowSum(W, i, 1)]

\* compute_ref_margin_vect
compute_ref_margin_vect(W) == [i \in range(reflen(W)) |-> RowSum(W, i, 0)]

\* Variant: the column sum leaves out the first row.
compute_test_margin_vect_skip_first(W) ==
    [j \in range(testlen(W)) |-> ColSum(W, 1, j)]

\* compute_test_margin_vect
compute_test_margin_vect(W) == [j \in range(testlen(W)) |-> ColSum(W, 0, j)]

\* Variant: the two sides are tested independently and OR-ed.
significant_or(W, rm, tm, refs, tests, i, j) ==
    /\ W.cell[<< i, j >>] > 0
    /\ \/ /\ RatioGE(W.cell[<< i, j >>], rm[i], thresholdRelative)
          /\ RatioGT(W.cell[<< i, j >>], area(refs[i].shape), threshold_ref)
       \/ /\ RatioGE(W.cell[<< i, j >>], tm[j], thresholdRelative)
          /\ RatioGT(W.cell[<< i, j >>], area(tests[j].shape), threshold_test)

\* Variant: `significant` starts as True instead of False.
significant_init_true(W, rm, tm, refs, tests, i, j) ==
    IF W.cell[<< i, j >>] > 0
    THEN IF RatioGE(W.cell[<< i, j >>], rm[i], thresholdRelative)
         THEN RatioGT(W.cell[<< i, j >>], area(refs[i].shape), threshold_ref)
         ELSE IF RatioGE(W.cell[<< i, j >>], tm[j], thresholdRelative)
              THEN RatioGT(W.cell[<< i, j >>], area(tests[j].shape), threshold_test)
              ELSE TRUE
    ELSE TRUE

\* Variant: the test side is tried first, the reference side only when the
\* test-relative gate fails.
significant_test_first(W, rm, tm, refs, tests, i, j) ==
    IF W.cell[<< i, j >>] > 0
    THEN IF RatioGE(W.cell[<< i, j >>], tm[j], thresholdRelative)
         THEN RatioGT(W.cell[<< i, j >>], area(tests[j].shape), threshold_test)
         ELSE IF RatioGE(W.cell[<< i, j >>], rm[i], thresholdRelative)
              THEN RatioGT(W.cell[<< i, j >>], area(refs[i].shape), threshold_ref)
              ELSE FALSE
    ELSE FALSE

\* The body of the double loop of compute_link_mat: the value of `significant`
\* stored in link_mat[i, j].
significant(W, rm, tm, refs, tests, i, j) ==
    IF W.cell[<< i, j >>] > 0
    THEN IF RatioGE(W.cell[<< i, j >>], rm[i], thresholdRelative)
         THEN RatioGT(W.cell[<< i, j >>], area(refs[i].shape), threshold_ref)
         ELSE IF RatioGE(W.cell[<< i, j >>], tm[j], thresholdRelative)
              THEN RatioGT(W.cell[<< i, j >>], area(tests[j].shape), threshold_test)
              ELSE FALSE
    ELSE FALSE

\* The two assertions that open compute_link_mat.
\* Variant: the assertions only require the overlap matrix and the annotation
\* lists to be at least as long as the margin vectors the loops run over.
LengthsCompatible_at_least(W, rm, tm, refs, tests) ==
    /\ reflen(W) >= len(rm) /\ len(refs) >= len(rm)
    /\ testlen(W) >= len(tm) /\ len(tests) >= len(tm)

LengthsCompatible(W, rm, tm, refs, tests) ==
    /\ reflen(W) = len(rm) /\ len(rm) = len(refs)
    /\ testlen(W) = len(tm) /\ len(tm) = len(tests)

\* Variant: the link matrix is a list of rows, which keeps no column count
\* when there is no row.
compute_link_mat_rows(W, rm, tm, refs, tests) ==
    [shape |-> << len(refs), IF len(refs) = 0 THEN 0 ELSE len(tests) >>,
     cell  |-> [ij \in range(len(rm)) \X range(len(tm)) |->
                  significant(W, rm, tm, refs, tests, ij[1], ij[2])]]

\* compute_link_mat, when its assertions hold.
compute_link_mat(W, rm, tm, refs, tests) ==
    [shape |-> << len(refs), len(tests) >>,
     cell  |-> [ij \in range(len(rm)) \X range(len(tm)) |->
                  significant(W, rm, tm, refs, tests, ij[1], ij[2])]]

---------------------------------------------------------------------------
(* ERROR TYPE CLASSIFICATION FUNCTIONS *)

\* The inner loop `for j in range(testlen)` counting the links of row i,
\* from column j on (match_flag / row_match_count).
RECURSIVE RowMatches(_, _, _)
RowMatches(L, i, j) ==
    IF j >= testlen(L) THEN 0
    ELSE (IF L.cell[<< i, j >>] THEN 1 ELSE 0) + RowMatches(L, i, j + 1)

\* Variant: the count of a column stops at its first link.
RECURSIVE ColMatches_break(_, _, _)
ColMatches_break(L, i, j) ==
    IF i >= reflen(L) THEN 0
    ELSE IF L.cell[<< i, j >>] THEN 1 ELSE ColMatches_break(L, i + 1, j)

\* The inner loop `for i in range(reflen)` counting the links of column j,
\* from row i on (match_flag / col_match_count).
RECURSIVE ColMatches(_, _, _)
ColMatches(L, i, j) ==
    IF i >= reflen(L) THEN 0
    ELSE (IF L.cell[<< i, j >>] THEN 1 ELSE 0) + ColMatches(L, i + 1, j)

\* row_match_index after the inner loop of find_total_correct_segmentation:
\* the last matching column of row i, 0 when there is none.
RECURSIVE RowMatchIndex(_, _, _, _)
RowMatchIndex(L, i, j, index) ==
    IF j >= testlen(L) THEN index
    ELSE RowMatchIndex(L, i, j + 1, IF L.cell[<< i, j >>] THEN j ELSE index)

\* Variant: the reciprocal check on the matched column is left out.
RECURSIVE CorrectFrom_no_reciprocal(_, _)
CorrectFrom_no_reciprocal(L, i) ==
    IF i >= reflen(L) THEN 0
    ELSE (IF RowMatches(L, i, 0) = 1 THEN 1 ELSE 0)
         + CorrectFrom_no_reciprocal(L, i + 1)

\* find_total_correct_segmentation: the outer loop from row i on.
RECURSIVE CorrectFrom(_, _)
CorrectFrom(L, i) ==
    IF i >= reflen(L) THEN 0
    ELSE (IF /\ RowMatches(L, i, 0) = 1
             /\ ColMatches(L, 0, RowMatchIndex(L, i, 0, 0)) = 1
          THEN 1 ELSE 0) + CorrectFrom(L, i + 1)

find_total_correct_segmentation(L) == CorrectFrom(L, 0)

\* find_total_over_segmentation: number_refc_at_least_one_edge and
\* number_significant_refc accumulated by the outer loop from row i on.
RECURSIVE OverEdges(_, _)
OverEdges(L, i) ==
    IF i >= reflen(L) THEN 0
    ELSE (IF RowMatches(L, i, 0) > 1 THEN RowMatches(L, i, 0) ELSE 0)
         + OverEdges(L, i + 1)

RECURSIVE OverRows(_, _)
OverRows(L, i) ==
    IF i >= reflen(L) THEN 0
    ELSE (IF RowMatches(L, i, 0) > 1 THEN 1 ELSE 0) + OverRows(L, i + 1)

\* Variant: the number of over-segmented rows is not subtracted.
find_total_over_segmentation_edges(L) == OverEdges(L, 0)

find_total_over_segmentation(L) == OverEdges(L, 0) - OverRows(L, 0)

\* find_total_under_segmentation: number_testc_at_least_one_edge and
\* number_significant_testc accumulated by the outer loop from column j on.
RECURSIVE UnderEdges(_, _)
UnderEdges(L, j) ==
    IF j >= testlen(L) THEN 0
    ELSE (IF ColMatches(L, 0, j) > 1 THEN ColMatches(L, 0, j) ELSE 0)
         + UnderEdges(L, j + 1)

RECURSIVE UnderCols(_, _)
UnderCols(L, j) ==
    IF j >= testlen(L) THEN 0
    ELSE (IF ColMatches(L, 0, j) > 1 THEN 1 ELSE 0) + UnderCols(L, j + 1)

\* Variant: the number of under-segmented columns is not subtracted.
find_total_under_segmentation_edges(L) == UnderEdges(L, 0)

find_total_under_segmentation(L) == UnderEdges(L, 0) - UnderCols(L, 0)

\* find_num_over_segmentation_components
find_num_over_segmentation_components(L) == OverRows(L, 0)

\* find_num_under_segmentation_components
find_num_under_segmentation_components(L) == UnderCols(L, 0)

\* Variant: the `break` leaves the loop after the first column, linked or not.
RowFlag_break_always(L, i, j) ==
    IF j >= testlen(L) THEN 0
    ELSE IF L.cell[<< i, j >>] THEN 1 ELSE 0

\* The inner loop of find_num_missed_components, which breaks at the first
\* link of row i: match_flag after the loop started at column j.
RECURSIVE RowFlag(_, _, _)
RowFlag(L, i, j) ==
    IF j >= testlen(L) THEN 0
    ELSE IF L.cell[<< i, j >>] THEN 1 ELSE RowFlag(L, i, j + 1)

\* The inner loop of find_num_false_alarm_components, which breaks at the
\* first link of column j: match_flag after the loop started at row i.
RECURSIVE ColFlag(_, _, _)
ColFlag(L, i, j) ==
    IF i >= reflen(L) THEN 0
    ELSE IF L.cell[<< i, j >>] THEN 1 ELSE ColFlag(L, i + 1, j)

RECURSIVE MissedFrom(_, _)
MissedFrom(L, i) ==
    IF i >= reflen(L) THEN 0
    ELSE (IF RowFlag(L, i, 0) = 0 THEN 1 ELSE 0) + MissedFrom(L, i + 1)

\* Variant: a link matrix without columns is given no missed component.
find_num_missed_components_skip_empty(L) ==
    IF testlen(L) = 0 THEN 0 ELSE MissedFrom(L, 0)

find_num_missed_components(L) == MissedFrom(L, 0)

RECURSIVE FalseAlarmFrom(_, _)
FalseAlarmFrom(L, j) ==
    IF j >= testlen(L) THEN 0
    ELSE (IF ColFlag(L, 0, j) = 0 THEN 1 ELSE 0) + FalseAlarmFrom(L, j + 1)

find_num_false_alarm_components(L) == FalseAlarmFrom(L, 0)

\* The statistics block of main(): the nine counts.
\* Variant: the two dimensions of the shape are unpacked in the wrong order.
Statistics_swapped(L) ==
    [Tc |-> find_total_correct_segmentation(L),
     To |-> find_total_over_segmentation(L),
     Tu |-> find_total_under_segmentation(L),
     Co |-> find_num_over_segmentation_components(L),
     Cu |-> find_num_under_segmentation_components(L),
     Cm |-> find_num_missed_components(L),
     Cf |-> find_num_false_alarm_components(L),
     Cr |-> L.shape[2],
     Ct |-> L.shape[1]]

Statistics(L) ==
    [Tc |-> find_total_correct_segmentation(L),
     To |-> find_total_over_segmentation(L),
     Tu |-> find_total_under_segmentation(L),
     Co |-> find_num_over_segmentation_components(L),
     Cu |-> find_num_under_segmentation_components(L),
     Cm |-> find_num_missed_components(L),
     Cf |-> find_num_false_alarm_components(L),
     Cr |-> L.shape[1],
     Ct |-> L.shape[2]]

---------------------------------------------------------------------------
(* main(): one evaluation run, stage by stage *)

\* After loading and filtering: any two lists of annotations, possibly empty.
Init ==
    /\ pc = "weight"
    /\ \E n \in 0 .. MaxRef : ref_data_vect \in Lists(Annotations, n)
    /\ \E m \in 0 .. MaxTest : test_data_vect \in Lists(Annotations, m)
    /\ weight_mat = None
    /\ ref_margin_vect = None
    /\ test_margin_vect = None
    /\ link_mat = None
    /\ result = None
    /\ args = None
    /\ ref_input_vect = None
    /\ test_input_vect = None
    /\ loader = None
    /\ handler = None

ComputeWeightMat ==
    /\ pc = "weight"
    /\ weight_mat' = compute_weight_mat(ref_data_vect, test_data_vect)
    /\ pc' = "margin"
    /\ UNCHANGED << ref_data_vect, test_data_vect, ref_margin_vect,
                    test_margin_vect, link_mat, result,
                    args, ref_input_vect, test_input_vect, loader, handler >>

ComputeMarginVects ==
    /\ pc = "margin"
    /\ ref_margin_vect' = compute_ref_margin_vect(weight_mat)
    /\ test_margin_vect' = compute_test_margin_vect(weight_mat)
    /\ pc' = "link"
    /\ UNCHANGED << ref_data_vect, test_data_vect, weight_mat, link_mat, result,
                    args, ref_input_vect, test_input_vect, loader, handler >>

\* compute_link_mat: an AssertionError ends the run without a link matrix.
ComputeLinkMat ==
    /\ pc = "link"
    /\ IF LengthsCompatible(weight_mat, ref_margin_vect, test_margin_vect,
                            ref_data_vect, test_data_vect)
       THEN /\ link_mat' = compute_link_mat(weight_mat, ref_margin_vect,
                                            test_margin_vect, ref_data_vect,
                                            test_data_vect)
            /\ pc' = "stats"
       ELSE /\ link_mat' = link_mat
            /\ pc' = "failed"
    /\ UNCHANGED << ref_data_vect, test_data_vect, weight_mat, ref_margin_vect,
                    test_margin_vect, result,
                    args, ref_input_vect, test_input_vect, loader, handler >>

ComputeStatistics ==
    /\ pc = "stats"
    /\ result' = Statistics(link_mat)
    /\ pc' = "done"
    /\ UNCHANGED << ref_data_vect, test_data_vect, weight_mat, ref_margin_vect,
                    test_margin_vect, link_mat,
                    args, ref_input_vect, test_input_vect, loader, handler >>

Next ==
    \/ ComputeWeightMat
    \/ ComputeMarginVects
    \/ ComputeLinkMat
    \/ ComputeStatistics

Spec == Init /\ [][Next]_vars

---------------------------------------------------------------------------
(* compute_link_mat alone, on any overlap matrix *)

\* The sum of all the cells of an overlap matrix.
RECURSIVE TotalFrom(_, _)
TotalFrom(W, i) ==
    IF i >= reflen(W) THEN 0 ELSE RowSum(W, i, 0) + TotalFrom(W, i + 1)

\* The overlap matrices of shape (n, m) whose cells sum to at most `total`.
WeightMats(n, m, total) ==
    { W \in [shape : {<< n, m >>},
             cell : [range(n) \X range(m) -> 0 .. total]] :
        TotalFrom(W, 0) <= total }

\* The largest of a set of naturals, 0 for the empty set.
Max(S) == IF S = {} THEN 0 ELSE CHOOSE x \in S : \A y \in S : y <= x

\* An annotation whose shape has the given area.
AnnotationOfArea(a) == [shape |-> 1 .. a]

\* The largest overlap of reference region i, and of test region j.
LargestOfRow(W, i) == Max({ W.cell[<< i, j >>] : j \in range(testlen(W)) })
LargestOfCol(W, j) == Max({ W.cell[<< i, j >>] : i \in range(reflen(W)) })

\* The state main() is in when it calls compute_link_mat, for any overlap
\* matrix: the margins are those of the matrix, and no overlap exceeds the
\* area of either of its two regions.  Each region is either its largest
\* overlap and no more, or (those of `wideRefs`, `wideTests`) twice as large.
InitLink ==
    /\ pc = "link"
    /\ \E n \in 0 .. MaxLinkCells, m \in 0 .. MaxLinkCells :
          /\ n * m <= MaxLinkCells
          /\ weight_mat \in WeightMats(n, m, MaxTotalOverlap)
    /\ ref_margin_vect = compute_ref_margin_vect(weight_mat)
    /\ test_margin_vect = compute_test_margin_vect(weight_mat)
    /\ \E wideRefs \in SUBSET range(reflen(weight_mat)) :
          ref_data_vect =
              [i \in range(reflen(weight_mat)) |->
                  AnnotationOfArea(IF i \in wideRefs
                                   THEN 2 * LargestOfRow(weight_mat, i)
                                   ELSE LargestOfRow(weight_mat, i))]
    /\ \E wideTests \in SUBSET range(testlen(weight_mat)) :
          test_data_vect =
              [j \in range(testlen(weight_mat)) |->
                  AnnotationOfArea(IF j \in wideTests
                                   THEN 2 * LargestOfCol(weight_mat, j)
                                   ELSE LargestOfCol(weight_mat, j))]
    /\ link_mat = None
    /\ result = None
    /\ args = None
    /\ ref_input_vect = None
    /\ test_input_vect = None
    /\ loader = None
    /\ handler = None

SpecLink == InitLink /\ [][ComputeLinkMat]_vars

---------------------------------------------------------------------------
(* The margin functions alone, on any overlap matrix *)

InitMargin ==
    /\ pc = "margin"
    /\ \E n \in 0 .. MaxLinkCells, m \in 0 .. MaxLinkCells :
          /\ n * m <= MaxLinkCells
          /\ weight_mat \in WeightMats(n, m, MaxTotalOverlap)
    /\ ref_data_vect = None
    /\ test_data_vect = None
    /\ ref_margin_vect = None
    /\ test_margin_vect = None
    /\ link_mat = None
    /\ result = None
    /\ args = None
    /\ ref_input_vect = None
    /\ test_input_vect = None
    /\ loader = None
    /\ handler = None

SpecMargin == InitMargin /\ [][ComputeMarginVects]_vars

---------------------------------------------------------------------------
(* The statistics block alone, on any link matrix *)

\* The boolean matrices of shape (n, m).
LinkMats(n, m) ==
    [shape : {<< n, m >>}, cell : [range(n) \X range(m) -> BOOLEAN]]

InitStats ==
    /\ pc = "stats"
    /\ \E n \in 0 .. MaxDim, m \in 0 .. MaxDim : link_mat \in LinkMats(n, m)
    /\ ref_data_vect = None
    /\ test_data_vect = None
    /\ weight_mat = None
    /\ ref_margin_vect = None
    /\ test_margin_vect = None
    /\ result = None
    /\ args = None
    /\ ref_input_vect = None
    /\ test_input_vect = None
    /\ loader = None
    /\ handler = None

SpecStats == InitStats /\ [][ComputeStatistics]_vars

---------------------------------------------------------------------------
(* compute_link_mat called with five arguments of independent lengths *)

InitArgs ==
    /\ pc = "link"
    /\ \E n \in 0 .. MaxArgLen, m \in 0 .. MaxArgLen :
          weight_mat \in [shape : {<< n, m >>},
                          cell : [range(n) \X range(m) -> 0 .. 1]]
    /\ \E k \in 0 .. MaxArgLen : ref_margin_vect = [i \in range(k) |-> 1]
    /\ \E k \in 0 .. MaxArgLen : test_margin_vect = [j \in range(k) |-> 1]
    /\ \E k \in 0 .. MaxArgLen :
          ref_data_vect = [i \in range(k) |-> AnnotationOfArea(1)]
    /\ \E k \in 0 .. MaxArgLen :
          test_data_vect = [j \in range(k) |-> AnnotationOfArea(1)]
    /\ link_mat = None
    /\ result = None
    /\ args = None
    /\ ref_input_vect = None
    /\ test_input_vect = None
    /\ loader = None
    /\ handler = None

NextArgs == ComputeLinkMat \/ ComputeStatistics

SpecArgs == InitArgs /\ [][NextArgs]_vars

---------------------------------------------------------------------------
(* The three stages run cell by cell, in any order *)

\* np.empty(...): an array none of whose cells has been assigned yet.
Empty == [p \in {} |-> 0]

\* The cells and entries a stage has not assigned yet.
UnwrittenCells(mat) ==
    (range(reflen(mat)) \X range(testlen(mat))) \ DOMAIN mat.cell

\* Body of the double loop of compute_weight_mat for the cell [i, j]; Wp is
\* the matrix being filled, which is in scope of the body.
weight_cell(Wp, refs, tests, i, j) ==
    area(Intersection(refs[i].shape, tests[j].shape))

\* Bodies of the loops of compute_ref_margin_vect and compute_test_margin_vect;
\* mp is the vector being filled.
ref_margin_entry(mp, W, i) == RowSum(W, i, 0)
test_margin_entry(mp, W, j) == ColSum(W, 0, j)

\* Variant: `significant` is set to False once before the loops instead of at
\* each iteration, so a cell is True as soon as a cell assigned before it is.
link_cell_no_reset(Lp, W, rm, tm, refs, tests, i, j) ==
    \/ \E p \in DOMAIN Lp.cell : Lp.cell[p]
    \/ significant(W, rm, tm, refs, tests, i, j)

\* Body of the double loop of compute_link_mat for the cell [i, j]: the local
\* `significant` is reset at each iteration; Lp is the matrix being filled.
link_cell(Lp, W, rm, tm, refs, tests, i, j) ==
    significant(W, rm, tm, refs, tests, i, j)

\* compute_weight_mat has allocated weight_mat.
InitPar ==
    /\ pc = "par_weight"
    /\ \E n \in 0 .. MaxParCells, m \in 0 .. MaxParCells :
          /\ n * m <= MaxParCells
          /\ ref_data_vect \in Lists(Annotations, n)
          /\ test_data_vect \in Lists(Annotations, m)
    /\ weight_mat = [shape |-> << len(ref_data_vect), len(test_data_vect) >>,
                     cell  |-> Empty]
    /\ ref_margin_vect = None
    /\ test_margin_vect = None
    /\ link_mat = None
    /\ result = None
    /\ args = None
    /\ ref_input_vect = None
    /\ test_input_vect = None
    /\ loader = None
    /\ handler = None

WriteWeightCell ==
    /\ pc = "par_weight"
    /\ \E ij \in UnwrittenCells(weight_mat) :
          weight_mat' =
              [weight_mat EXCEPT !.cell =
                  @ @@ (ij :> weight_cell(weight_mat, ref_data_vect,
                                          test_data_vect, ij[1], ij[2]))]
    /\ UNCHANGED << pc, ref_data_vect, test_data_vect, ref_margin_vect,
                    test_margin_vect, link_mat, result,
                    args, ref_input_vect, test_input_vect, loader, handler >>

\* compute_weight_mat returns; the two margin functions allocate their vectors.
WeightBarrier ==
    /\ pc = "par_weight"
    /\ UnwrittenCells(weight_mat) = {}
    /\ ref_margin_vect' = Empty
    /\ test_margin_vect' = Empty
    /\ pc' = "par_margin"
    /\ UNCHANGED << ref_data_vect, test_data_vect, weight_mat, link_mat, result,
                    args, ref_input_vect, test_input_vect, loader, handler >>

WriteRefMargin ==
    /\ pc = "par_margin"
    /\ \E i \in range(reflen(weight_mat)) \ DOMAIN ref_margin_vect :
          ref_margin_vect' =
              ref_margin_vect @@
                  (i :> ref_margin_entry(ref_margin_vect, weight_mat, i))
    /\ UNCHANGED << pc, ref_data_vect, test_data_vect, weight_mat,
                    test_margin_vect, link_mat, result,
                    args, ref_input_vect, test_input_vect, loader, handler >>

WriteTestMargin ==
    /\ pc = "par_margin"
    /\ \E j \in range(testlen(weight_mat)) \ DOMAIN test_margin_vect :
          test_margin_vect' =
              test_margin_vect @@
                  (j :> test_margin_entry(test_margin_vect, weight_mat, j))
    /\ UNCHANGED << pc, ref_data_vect, test_data_vect, weight_mat,
                    ref_margin_vect, link_mat, result,
                    args, ref_input_vect, test_input_vect, loader, handler >>

\* Both margin functions return; compute_link_mat checks the lengths and
\* allocates link_mat.
MarginBarrier ==
    /\ pc = "par_margin"
    /\ DOMAIN ref_margin_vect = range(reflen(weight_mat))
    /\ DOMAIN test_margin_vect = range(testlen(weight_mat))
    /\ LengthsCompatible(weight_mat, ref_margin_vect, test_margin_vect,
                         ref_data_vect, test_data_vect)
    /\ link_mat' = [shape |-> << len(ref_data_vect), len(test_data_vect) >>,
                    cell  |-> Empty]
    /\ pc' = "par_link"
    /\ UNCHANGED << ref_data_vect, test_data_vect, weight_mat, ref_margin_vect,
                    test_margin_vect, result,
                    args, ref_input_vect, test_input_vect, loader, handler >>

WriteLinkCell ==
    /\ pc = "par_link"
    /\ \E ij \in UnwrittenCells(link_mat) :
          link_mat' =
              [link_mat EXCEPT !.cell =
                  @ @@ (ij :> link_cell(link_mat, weight_mat, ref_margin_vect,
                                        test_margin_vect, ref_data_vect,
                                        test_data_vect, ij[1], ij[2]))]
    /\ UNCHANGED << pc, ref_data_vect, test_data_vect, weight_mat,
                    ref_margin_vect, test_margin_vect, result,
                    args, ref_input_vect, test_input_vect, loader, handler >>

\* compute_link_mat returns.
LinkBarrier ==
    /\ pc = "par_link"
    /\ UnwrittenCells(link_mat) = {}
    /\ pc' = "stats"
    /\ UNCHANGED << ref_data_vect, test_data_vect, weight_mat, ref_margin_vect,
                    test_margin_vect, link_mat, result,
                    args, ref_input_vect, test_input_vect, loader, handler >>

NextPar ==
    \/ WriteWeightCell
    \/ WeightBarrier
    \/ WriteRefMargin
    \/ WriteTestMargin
    \/ MarginBarrier
    \/ WriteLinkCell
    \/ LinkBarrier
    \/ ComputeStatistics

SpecPar == InitPar /\ [][NextPar]_vars

---------------------------------------------------------------------------
(* The type filter of main(), followed by the pipeline *)

\* Types the drivers give to annotations, and types named on the command line.
Types == {"coin", "label"}
RestrictionTypes == {"coin", "label", "text"}

\* Loaded annotations: a type, and a shape that is empty or the whole plane.
TypedAnnotations == [type : Types, shape : {{}, Cells}]

\* The value of an option with action="append": None when the option was
\* never given, else the list of its values.  (A record, so that None and a
\* list can be told apart.)
NoneOption == [is_none |-> TRUE, list |-> [p \in {} |-> 0]]
ListOption(v) == [is_none |-> FALSE, list |-> v]

\* `if x:` for such a value.
Truthy(x) == ~x.is_none /\ len(x.list) # 0

\* `x in v` for a list v.
In(x, v) == \E i \in DOMAIN v : v[i] = x

\* What -t, given never, once or twice, leaves in args.type_restriction.
Restrictions ==
    {NoneOption} \cup
    { ListOption(v) :
        v \in Lists(RestrictionTypes, 1) \cup Lists(RestrictionTypes, 2) }

\* [annot for annot in v if annot.type in allowed], from index k on, acc being
\* the list built so far.
RECURSIVE FilterFrom(_, _, _, _)
FilterFrom(v, allowed, k, acc) ==
    IF k >= len(v) THEN acc
    ELSE FilterFrom(v, allowed, k + 1,
                    IF In(v[k].type, allowed)
                    THEN acc @@ (len(acc) :> v[k])
                    ELSE acc)

InitFilter ==
    /\ pc = "filter"
    /\ \E n \in 0 .. MaxInput : ref_input_vect \in Lists(TypedAnnotations, n)
    /\ \E m \in 0 .. MaxInput : test_input_vect \in Lists(TypedAnnotations, m)
    /\ \E r \in Restrictions : args = [type_restriction |-> r]
    /\ ref_data_vect = None
    /\ test_data_vect = None
    /\ weight_mat = None
    /\ ref_margin_vect = None
    /\ test_margin_vect = None
    /\ link_mat = None
    /\ result = None
    /\ loader = None
    /\ handler = None

FilterTypes ==
    /\ pc = "filter"
    /\ IF Truthy(args.type_restriction)
       THEN /\ ref_data_vect' =
                  FilterFrom(ref_input_vect, args.type_restriction.list, 0, Empty)
            /\ test_data_vect' =
                  FilterFrom(test_input_vect, args.type_restriction.list, 0, Empty)
       ELSE /\ ref_data_vect' = ref_input_vect
            /\ test_data_vect' = test_input_vect
    /\ pc' = "weight"
    /\ UNCHANGED << weight_mat, ref_margin_vect, test_margin_vect, link_mat,
                    result, args, ref_input_vect, test_input_vect, loader,
                    handler >>

NextFilter == FilterTypes \/ Next

SpecFilter == InitFilter /\ [][NextFilter]_vars

---------------------------------------------------------------------------
(* loadWithAnyDriver *)

\* Exceptions, other than UnsupportedFile, that the load of a driver raises.
ErrorKinds == {"LabelFileError", "XMLFileError"}

\* What driver.load(filename) does for one driver class and the file at hand:
\* it raises UnsupportedFile, raises another exception, or returns a list of
\* annotations (empty or not).
DriverOutcomes ==
    { [kind |-> k, data |-> Empty] : k \in {"UnsupportedFile"} \cup ErrorKinds }
    \cup
    { [kind |-> "return", data |-> v] :
        v \in Lists(TypedAnnotations, 0) \cup Lists(TypedAnnotations, 1) }

\* Variant: `if not input_data` instead of `if input_data is None`.
NoInputData_falsy(input_data) == ~Truthy(input_data)

\* `input_data is None`
NoInputData(input_data) == input_data.is_none

\* loadWithAnyDriver is entered: input_data = None, the loop is at the first
\* driver; `invoked` lists the drivers whose load has been called.
InitLoad ==
    /\ pc = "load_loop"
    /\ \E n \in 0 .. MaxDrivers :
          \E d \in Lists(DriverOutcomes, n) :
              loader = [input_drivers |-> d,
                        pos           |-> 0,
                        invoked       |-> Empty,
                        input_data    |-> NoneOption,
                        exception     |-> None,
                        returned      |-> NoneOption]
    /\ ref_data_vect = None
    /\ test_data_vect = None
    /\ weight_mat = None
    /\ ref_margin_vect = None
    /\ test_margin_vect = None
    /\ link_mat = None
    /\ result = None
    /\ args = None
    /\ ref_input_vect = None
    /\ test_input_vect = None
    /\ handler = None

\* One iteration of the for loop: the try block and its except clause.
TryDriver ==
    /\ pc = "load_loop"
    /\ loader.pos < len(loader.input_drivers)
    /\ LET o == loader.input_drivers[loader.pos]
           called == loader.invoked @@ (len(loader.invoked) :> loader.pos)
       IN  CASE o.kind = "return" ->
                  /\ loader' = [loader EXCEPT !.invoked = called,
                                               !.input_data = ListOption(o.data)]
                  /\ pc' = "load_check"
             [] o.kind = "UnsupportedFile" ->
                  /\ loader' = [loader EXCEPT !.invoked = called,
                                               !.pos = @ + 1]
                  /\ pc' = "load_loop"
             [] OTHER ->
                  /\ loader' = [loader EXCEPT !.invoked = called,
                                               !.exception = o.kind]
                  /\ pc' = "load_raised"
    /\ UNCHANGED << ref_data_vect, test_data_vect, weight_mat, ref_margin_vect,
                    test_margin_vect, link_mat, result, args, ref_input_vect,
                    test_input_vect, handler >>

\* The for loop has gone through the whole list.
LoopExhausted ==
    /\ pc = "load_loop"
    /\ loader.pos >= len(loader.input_drivers)
    /\ pc' = "load_check"
    /\ UNCHANGED << ref_data_vect, test_data_vect, weight_mat, ref_margin_vect,
                    test_margin_vect, link_mat, result, args, ref_input_vect,
                    test_input_vect, loader, handler >>

\* if input_data is None: raise NoInputDriverCompatibleError; return input_data
CheckInputData ==
    /\ pc = "load_check"
    /\ IF NoInputData(loader.input_data)
       THEN /\ loader' = [loader EXCEPT
                             !.exception = "NoInputDriverCompatibleError"]
            /\ pc' = "load_raised"
       ELSE /\ loader' = [loader EXCEPT !.returned = loader.input_data]
            /\ pc' = "load_returned"
    /\ UNCHANGED << ref_data_vect, test_data_vect, weight_mat, ref_margin_vect,
                    test_margin_vect, link_mat, result, args, ref_input_vect,
                    test_input_vect, handler >>

NextLoad == TryDriver \/ LoopExhausted \/ CheckInputData

SpecLoad == InitLoad /\ [][NextLoad]_vars

---------------------------------------------------------------------------
(* _catinfoContentHandler: the SAX events of a cat_info XML file *)

\* known_tags, and a tag that is not one of them.
tag_coins == "coins"
tag_coin == "coin"
tag_image == "image"
tag_label == "label"
known_tags == {tag_coins, tag_coin, tag_image, tag_label}
Tags == known_tags \cup {"other"}

\* insideUnk: None (no), or an int (the level of the unknown element).
NoLevel == [is_none |-> TRUE, level |-> 0]
Level(n) == [is_none |-> FALSE, level |-> n]

\* list.append(x) and the list left by list.pop()
Appended(v, x) == v @@ (len(v) :> x)
Popped(v) == [k \in range(len(v) - 1) |-> v[k]]

\* _autoIdStr: the counter zero-padded after a fixed prefix, kept as the counter.
autoIdStr(h) == h.cAutoId

\* _commitAnnot
commitAnnot(h) ==
    [h EXCEPT !.annotations =
                  Appended(@, [shape |-> h.cShape, type |-> h.cType,
                               attributes |-> h.cAttrib]),
              !.cShape = None, !.cType = None, !.cAttrib = None]

\* startElement(name, attrs), attrs holding the x, y, w, h of a rectangle.
startElement(h, name) ==
    LET pushed == [h EXCEPT !.eltStack = Appended(@, name)]
    IN  CASE name = tag_coins -> pushed
          [] name = tag_coin -> [pushed EXCEPT !.cAutoId = @ + 1]
          [] name = tag_label ->
               [pushed EXCEPT !.cType = "label", !.cShape = "rectangle",
                              !.cAttrib = [id |-> autoIdStr(pushed)]]
          [] name = tag_image ->
               [pushed EXCEPT !.cType = "coin", !.cShape = "rectangle",
                              !.cAttrib = [id |-> autoIdStr(pushed)]]
          [] OTHER -> [pushed EXCEPT !.insideUnk = Level(len(pushed.eltStack))]

\* endElement(name): the handler it leaves, and whether it raised XMLFileError.
endElement(h, name) ==
    IF len(h.eltStack) = 0 THEN [handler |-> h, raised |-> TRUE]
    ELSE LET prevElt == h.eltStack[len(h.eltStack) - 1]
             popped == [h EXCEPT !.eltStack = Popped(@)]
             parsed == IF name \in {tag_label, tag_image}
                       THEN commitAnnot(popped)
                       ELSE popped
         IN  IF name # prevElt THEN [handler |-> popped, raised |-> TRUE]
             ELSE [handler |->
                       IF /\ ~parsed.insideUnk.is_none
                          /\ len(parsed.eltStack) < parsed.insideUnk.level
                       THEN [parsed EXCEPT !.insideUnk = NoLevel]
                       ELSE parsed,
                   raised |-> FALSE]

\* __init__
InitXml ==
    /\ pc = "xml"
    /\ handler = [eltStack |-> Empty, annotations |-> Empty, cType |-> None,
                  cShape |-> None, cAttrib |-> None, cAutoId |-> 0,
                  insideUnk |-> NoLevel]
    /\ ref_data_vect = None
    /\ test_data_vect = None
    /\ weight_mat = None
    /\ ref_margin_vect = None
    /\ test_margin_vect = None
    /\ link_mat = None
    /\ result = None
    /\ args = None
    /\ ref_input_vect = None
    /\ test_input_vect = None
    /\ loader = None

StartElement ==
    /\ pc = "xml"
    /\ len(handler.eltStack) < MaxDepth
    /\ \E name \in Tags :
          /\ name = tag_coin => handler.cAutoId < MaxAutoId
          /\ handler' = startElement(handler, name)
    /\ UNCHANGED << pc, ref_data_vect, test_data_vect, weight_mat,
                    ref_margin_vect, test_margin_vect, link_mat, result, args,
                    ref_input_vect, test_input_vect, loader >>

EndElement ==
    /\ pc = "xml"
    /\ \E name \in Tags :
          /\ name \in {tag_label, tag_image} =>
                len(handler.annotations) < MaxAnnots
          /\ handler' = endElement(handler, name).handler
          /\ pc' = IF endElement(handler, name).raised THEN "xml_error" ELSE "xml"
    /\ UNCHANGED << ref_data_vect, test_data_vect, weight_mat, ref_margin_vect,
                    test_margin_vect, link_mat, result, args, ref_input_vect,
                    test_input_vect, loader >>

NextXml == StartElement \/ EndElement

SpecXml == InitXml /\ [][NextXml]_vars

---------------------------------------------------------------------------
(* Vocabulary of the properties *)

\* The link matrix has been produced.
Linked == pc \in {"stats", "done"}

\* The index pairs of a matrix.
Pairs(mat) == range(reflen(mat)) \X range(testlen(mat))

\* Degree of reference row i and of test column j in the link matrix L.
RowDegree(L, i) == Cardinality({ j \in range(testlen(L)) : L.cell[<< i, j >>] })
ColDegree(L, j) == Cardinality({ i \in range(reflen(L)) : L.cell[<< i, j >>] })

\* The sum of f over the finite set S.
RECURSIVE SumOver(_, _)
SumOver(S, f) ==
    IF S = {} THEN 0
    ELSE LET x == CHOOSE y \in S : TRUE IN f[x] + SumOver(S \ {x}, f)

\* The four quantities of the link rule for the pair (i, j), as exact
\* fractions: 0.2 = 1/5 and 0.5 = 1/2.
Overlap(i, j) == weight_mat.cell[<< i, j >>]
RefRelGate(i, j) == 5 * Overlap(i, j) >= ref_margin_vect[i]
RefAbsGate(i, j) == 2 * Overlap(i, j) > area(ref_data_vect[i].shape)
TestRelGate(i, j) == 5 * Overlap(i, j) >= test_margin_vect[j]
TestAbsGate(i, j) == 2 * Overlap(i, j) > area(test_data_vect[j].shape)

\* The two symmetric conditions OR-ed independently.
OrRule(i, j) ==
    /\ Overlap(i, j) > 0
    /\ \/ RefRelGate(i, j) /\ RefAbsGate(i, j)
       \/ TestRelGate(i, j) /\ TestAbsGate(i, j)

\* No overlap exceeds the area of either region, and the margins are the row
\* and column sums of the overlap matrix.
GeometricallyConsistent ==
    /\ \A ij \in Pairs(weight_mat) :
          /\ Overlap(ij[1], ij[2]) <= area(ref_data_vect[ij[1]].shape)
          /\ Overlap(ij[1], ij[2]) <= area(test_data_vect[ij[2]].shape)
    /\ \A i \in range(reflen(weight_mat)) :
          ref_margin_vect[i] =
              SumOver(range(testlen(weight_mat)),
                      [j \in range(testlen(weight_mat)) |-> Overlap(i, j)])
    /\ \A j \in range(testlen(weight_mat)) :
          test_margin_vect[j] =
              SumOver(range(reflen(weight_mat)),
                      [i \in range(reflen(weight_mat)) |-> Overlap(i, j)])

---------------------------------------------------------------------------
(* Link classifier *)

\* C1: for every overlap matrix, its margins and the region areas, every cell
\* of the link matrix follows the short-circuited rule: false when the overlap
\* is 0; decided by the reference-side absolute threshold alone when the
\* reference-relative gate holds; decided by the test-side absolute threshold
\* when the reference-relative gate fails and the test-relative gate holds;
\* false otherwise.
C1_ShortCircuitRule ==
    Linked =>
        \A ij \in Pairs(link_mat) :
            LET i == ij[1]
                j == ij[2]
                l == link_mat.cell[ij]
            IN  /\ Overlap(i, j) = 0 => ~l
                /\ Overlap(i, j) > 0 /\ RefRelGate(i, j)
                      => (l <=> RefAbsGate(i, j))
                /\ Overlap(i, j) > 0 /\ ~RefRelGate(i, j) /\ TestRelGate(i, j)
                      => (l <=> TestAbsGate(i, j))
                /\ Overlap(i, j) > 0 /\ ~RefRelGate(i, j) /\ ~TestRelGate(i, j)
                      => ~l

\* A link matrix with a pair without overlap, a pair the reference side
\* rejects although the test side would accept it, and a pair linked through
\* the test side after the reference-relative gate failed.
C1_Witness ==
    /\ Linked
    /\ \E ij \in Pairs(link_mat) : Overlap(ij[1], ij[2]) = 0
    /\ \E ij \in Pairs(link_mat) :
          /\ Overlap(ij[1], ij[2]) > 0 /\ RefRelGate(ij[1], ij[2])
          /\ ~RefAbsGate(ij[1], ij[2])
          /\ TestRelGate(ij[1], ij[2]) /\ TestAbsGate(ij[1], ij[2])
          /\ ~link_mat.cell[ij]
    /\ \E ij \in Pairs(link_mat) :
          /\ Overlap(ij[1], ij[2]) > 0 /\ ~RefRelGate(ij[1], ij[2])
          /\ TestRelGate(ij[1], ij[2]) /\ link_mat.cell[ij]

\* A pair with overlap that fails both relative gates (the last case of the
\* rule); the smallest such overlap matrix is ((1, 5), (5, 0)), of total 11.
BothRelativeGatesFail ==
    /\ Linked
    /\ \E ij \in Pairs(link_mat) :
          /\ Overlap(ij[1], ij[2]) > 0 /\ ~RefRelGate(ij[1], ij[2])
          /\ ~TestRelGate(ij[1], ij[2])

\* C2: link soundness: a link is never asserted without overlap.
C2_LinkSoundness ==
    Linked => \A ij \in Pairs(link_mat) : link_mat.cell[ij] => weight_mat.cell[ij] > 0

\* A link matrix with a link, next to a pair without overlap.
C2_Witness ==
    /\ Linked
    /\ \E ij \in Pairs(link_mat) : link_mat.cell[ij] /\ weight_mat.cell[ij] > 0
    /\ \E ij \in Pairs(link_mat) : weight_mat.cell[ij] = 0

---------------------------------------------------------------------------
(* Metric aggregator *)

\* The statistics have been computed.
Done == pc = "done"

Rows(L) == range(reflen(L))
Cols(L) == range(testlen(L))

\* C3: Tc counts exactly the reference rows of degree 1 whose only linked
\* column has degree 1 too; a row of degree 1 whose column has a higher degree
\* does not count.
C3_TcStrictOneToOne ==
    Done =>
        result.Tc =
            Cardinality({ i \in Rows(link_mat) :
                /\ RowDegree(link_mat, i) = 1
                /\ \A j \in Cols(link_mat) :
                      link_mat.cell[<< i, j >>] => ColDegree(link_mat, j) = 1 })

\* A counted one-to-one match next to a row of degree 1 whose column has
\* degree 2.
C3_Witness ==
    /\ Done
    /\ result.Tc >= 1
    /\ \E i \in Rows(link_mat), j \in Cols(link_mat) :
          /\ link_mat.cell[<< i, j >>]
          /\ RowDegree(link_mat, i) = 1
          /\ ColDegree(link_mat, j) > 1

\* C4: To is the sum of (degree - 1) over the reference rows of degree > 1,
\* and Tu is the sum of (degree - 1) over the test columns of degree > 1.
C4_TotalOverUnder ==
    Done =>
        /\ result.To =
              SumOver({ i \in Rows(link_mat) : RowDegree(link_mat, i) > 1 },
                      [i \in Rows(link_mat) |-> RowDegree(link_mat, i) - 1])
        /\ result.Tu =
              SumOver({ j \in Cols(link_mat) : ColDegree(link_mat, j) > 1 },
                      [j \in Cols(link_mat) |-> ColDegree(link_mat, j) - 1])

\* Rows of degree 2 and 3 and columns of degree 1 and 3 in one matrix.
C4_Witness ==
    /\ Done
    /\ \E i \in Rows(link_mat) : RowDegree(link_mat, i) = 2
    /\ \E i \in Rows(link_mat) : RowDegree(link_mat, i) = 3
    /\ \E j \in Cols(link_mat) : ColDegree(link_mat, j) = 1
    /\ \E j \in Cols(link_mat) : ColDegree(link_mat, j) = 3
    /\ result.To = 3
    /\ result.Tu = 3

\* C5: Co is the number of rows of degree > 1, Cm the number of rows of
\* degree 0, Cu the number of columns of degree > 1 and Cf the number of
\* columns of degree 0.
C5_ComponentCounts ==
    Done =>
        /\ result.Co = Cardinality({ i \in Rows(link_mat) : RowDegree(link_mat, i) > 1 })
        /\ result.Cm = Cardinality({ i \in Rows(link_mat) : RowDegree(link_mat, i) = 0 })
        /\ result.Cu = Cardinality({ j \in Cols(link_mat) : ColDegree(link_mat, j) > 1 })
        /\ result.Cf = Cardinality({ j \in Cols(link_mat) : ColDegree(link_mat, j) = 0 })

\* A row and a column whose first cell is not linked but a later one is (the
\* loops of Cm and Cf break there), next to an empty row and an empty column.
C5_Witness ==
    /\ Done
    /\ \E i \in Rows(link_mat) :
          /\ 0 \in Cols(link_mat)
          /\ ~link_mat.cell[<< i, 0 >>]
          /\ RowDegree(link_mat, i) > 1
    /\ \E j \in Cols(link_mat) :
          /\ 0 \in Rows(link_mat)
          /\ ~link_mat.cell[<< 0, j >>]
          /\ ColDegree(link_mat, j) > 1
    /\ result.Cm >= 1
    /\ result.Cf >= 1

---------------------------------------------------------------------------
(* Whole runs of the pipeline *)

\* Lengths of the two annotation lists of the run.
N == len(ref_data_vect)
M == len(test_data_vect)

\* C6 as stated: with an empty reference list or an empty test list the run
\* does not fail and every one of Tc, To, Tu, Co, Cu, Cm, Cf is 0, while
\* Cr = N and Ct = M.
C6_AllZeroOnEmptyInput ==
    (N = 0 \/ M = 0) =>
        /\ pc # "failed"
        /\ Done =>
              /\ result.Tc = 0 /\ result.To = 0 /\ result.Tu = 0
              /\ result.Co = 0 /\ result.Cu = 0
              /\ result.Cm = 0 /\ result.Cf = 0
              /\ result.Cr = N /\ result.Ct = M

\* C6 amended: with an empty reference list or an empty test list the run
\* does not fail and Tc, To, Tu, Co, Cu are 0, while Cm = N and Cf = M (every
\* region of the non-empty side is a missed component or a false alarm) and
\* Cr = N, Ct = M.
C6_EmptyInput ==
    (N = 0 \/ M = 0) =>
        /\ pc # "failed"
        /\ Done =>
              /\ result.Tc = 0 /\ result.To = 0 /\ result.Tu = 0
              /\ result.Co = 0 /\ result.Cu = 0
              /\ result.Cm = N /\ result.Cf = M
              /\ result.Cr = N /\ result.Ct = M

\* A finished run with reference regions and no test region.
C6_Witness == Done /\ N = MaxRef /\ M = 0 /\ result.Cm = N

\* C7: scenario E: with an empty reference list and a non-empty test list
\* the run does not fail and ends with Cr = 0, Ct = M, Cf = Ct and
\* Tc = To = Tu = Co = Cu = Cm = 0.
C7_ScenarioE ==
    (N = 0 /\ M > 0) =>
        /\ pc # "failed"
        /\ Done =>
              /\ result.Cr = 0 /\ result.Ct = M /\ result.Cf = result.Ct
              /\ result.Tc = 0 /\ result.To = 0 /\ result.Tu = 0
              /\ result.Co = 0 /\ result.Cu = 0 /\ result.Cm = 0

\* A finished run with no reference region and the most test regions.
C7_Witness == Done /\ N = 0 /\ M = MaxTest /\ result.Cf = MaxTest

\* The premise of scenario C: two reference regions and one test region,
\* each pair passing the test-relative gate and the test-side absolute
\* threshold.
ScenarioC ==
    /\ N = 2 /\ M = 1
    /\ \A i \in range(N) :
          /\ Overlap(i, 0) > 0
          /\ TestRelGate(i, 0)
          /\ TestAbsGate(i, 0)

\* C8 as stated: in scenario C the result is Cu = 1, Tu = 1, Tc = 0.
C8_ScenarioC ==
    (Done /\ ScenarioC) =>
        result.Cu = 1 /\ result.Tu = 1 /\ result.Tc = 0

\* C8 amended: in scenario C, when each pair also passes the reference-side
\* absolute threshold (the one the code consults: with a single test region
\* the reference-relative gate always holds), the result is Cu = 1, Tu = 1,
\* Tc = 0.
C8_ScenarioCRefSide ==
    (Done /\ ScenarioC /\ \A i \in range(N) : RefAbsGate(i, 0)) =>
        result.Cu = 1 /\ result.Tu = 1 /\ result.Tc = 0

\* A finished run of the amended scenario C.
C8_Witness ==
    /\ Done /\ ScenarioC
    /\ \A i \in range(N) : RefAbsGate(i, 0)
    /\ result.Cu = 1

\* The premise of scenario B: one reference region and two test regions
\* whose overlaps add up to the area of the reference region, each pair
\* passing both reference-side gates.
ScenarioB ==
    /\ N = 1 /\ M = 2
    /\ Overlap(0, 0) + Overlap(0, 1) = area(ref_data_vect[0].shape)
    /\ \A j \in range(M) :
          /\ Overlap(0, j) > 0
          /\ RefRelGate(0, j)
          /\ RefAbsGate(0, j)

\* C9: the premise of scenario B holds in no run: two overlaps that add up
\* to the area of the reference region cannot both exceed half of it.
C9_ScenarioBNeverHappens == Linked => ~ScenarioB

\* C10: the short-circuited rule is not the independent OR of the two sides:
\* it links only pairs the OR links, and the pairs the OR links and it does
\* not are those the reference side gates in and then rejects while the test
\* side accepts them.
C10_StricterThanOr ==
    Linked =>
        \A ij \in Pairs(link_mat) :
            /\ link_mat.cell[ij] => OrRule(ij[1], ij[2])
            /\ OrRule(ij[1], ij[2]) /\ ~link_mat.cell[ij] =>
                  /\ RefRelGate(ij[1], ij[2]) /\ ~RefAbsGate(ij[1], ij[2])
                  /\ TestRelGate(ij[1], ij[2]) /\ TestAbsGate(ij[1], ij[2])

\* A geometrically consistent run with a pair the OR links and the code does
\* not.
C10_Witness ==
    /\ Linked
    /\ GeometricallyConsistent
    /\ \E ij \in Pairs(link_mat) : OrRule(ij[1], ij[2]) /\ ~link_mat.cell[ij]

---------------------------------------------------------------------------
(* Margins *)

\* The margin vectors have been computed.
MarginsComputed == pc \in {"link", "stats", "done", "failed"}

\* C11: no division by zero in the link classifier: wherever the overlap is
\* positive, the margin of its row and the margin of its column are positive,
\* so every margin the rule divides by is.
C11_NoZeroMarginDivisor ==
    MarginsComputed =>
        \A ij \in Pairs(weight_mat) :
            Overlap(ij[1], ij[2]) > 0 =>
                ref_margin_vect[ij[1]] > 0 /\ test_margin_vect[ij[2]] > 0

\* A classified overlap matrix with a zero margin (never divided by), and a
\* pair for which both margins were divided by.
C11_Witness ==
    /\ Linked
    /\ \E i \in range(reflen(weight_mat)) : ref_margin_vect[i] = 0
    /\ \E ij \in Pairs(weight_mat) :
          Overlap(ij[1], ij[2]) > 0 /\ ~RefRelGate(ij[1], ij[2])

\* C13: margin consistency: compute_ref_margin_vect returns one entry per
\* row, the sum of the row, and compute_test_margin_vect one entry per
\* column, the sum of the column; also for matrices without rows or columns.
C13_MarginConsistency ==
    pc = "link" =>
        /\ DOMAIN ref_margin_vect = range(reflen(weight_mat))
        /\ DOMAIN test_margin_vect = range(testlen(weight_mat))
        /\ \A i \in range(reflen(weight_mat)) :
              ref_margin_vect[i] =
                  SumOver(range(testlen(weight_mat)),
                          [j \in range(testlen(weight_mat)) |-> Overlap(i, j)])
        /\ \A j \in range(testlen(weight_mat)) :
              test_margin_vect[j] =
                  SumOver(range(reflen(weight_mat)),
                          [i \in range(reflen(weight_mat)) |-> Overlap(i, j)])

\* Margins of a 2 x 2 matrix of positive overlaps whose two rows, and two
\* columns, have different sums.
C13_Witness ==
    /\ pc = "link"
    /\ weight_mat.shape = << 2, 2 >>
    /\ \A ij \in Pairs(weight_mat) : Overlap(ij[1], ij[2]) > 0
    /\ ref_margin_vect[0] # ref_margin_vect[1]
    /\ test_margin_vect[0] # test_margin_vect[1]

---------------------------------------------------------------------------
(* Relations between the counts *)

\* The number of true cells of the link matrix L.
TrueCells(L) == Cardinality({ ij \in Pairs(L) : L.cell[ij] })

\* L with its rows and columns exchanged.
Transpose(L) ==
    [shape |-> << testlen(L), reflen(L) >>,
     cell  |-> [ji \in range(testlen(L)) \X range(reflen(L)) |->
                  L.cell[<< ji[2], ji[1] >>]]]

\* C18: link-count conservation: Cr - Cm + To and Ct - Cf + Tu both equal the
\* number of true cells of the link matrix, and To >= Co, Tu >= Cu.
C18_LinkCountConservation ==
    Done =>
        /\ result.Cr - result.Cm + result.To = TrueCells(link_mat)
        /\ result.Ct - result.Cf + result.Tu = TrueCells(link_mat)
        /\ result.Cr - result.Cm + result.To = result.Ct - result.Cf + result.Tu
        /\ result.To >= result.Co
        /\ result.Tu >= result.Cu

\* Counts of a matrix with a missed row, a false-alarm column, a row of
\* degree 2 and a column of degree 2.
C18_Witness ==
    /\ Done
    /\ result.Cm >= 1 /\ result.Cf >= 1
    /\ result.Co >= 1 /\ result.Cu >= 1
    /\ TrueCells(link_mat) = 3

\* C19: the classes of rows (one-to-one, over-segmented, missed) and of
\* columns (one-to-one, under-segmented, false alarm) are disjoint, so
\* Tc + Co + Cm <= Cr and Tc + Cu + Cf <= Ct; and Tc counted on the transposed
\* link matrix is the same number.
C19_ClassesBoundTc ==
    Done =>
        /\ result.Tc + result.Co + result.Cm <= result.Cr
        /\ result.Tc + result.Cu + result.Cf <= result.Ct
        /\ result.Tc = find_total_correct_segmentation(Transpose(link_mat))

\* Counts of a matrix that differs from its transpose, has a one-to-one
\* match, an under-segmented column made of rows of degree 1, and a false
\* alarm.
C19_Witness ==
    /\ Done
    /\ link_mat # Transpose(link_mat)
    /\ result.Tc >= 1
    /\ result.Cu >= 1
    /\ result.Cf >= 1
    /\ result.Co = 0
    /\ result.Tc + result.Cu + result.Cf = result.Ct
    /\ result.Tc + result.Co + result.Cm < result.Cr

---------------------------------------------------------------------------
(* Incompatible lengths *)

\* The five arguments of compute_link_mat do not have compatible lengths.
Mismatched ==
    \/ reflen(weight_mat) # len(ref_margin_vect)
    \/ reflen(weight_mat) # len(ref_data_vect)
    \/ testlen(weight_mat) # len(test_margin_vect)
    \/ testlen(weight_mat) # len(test_data_vect)

\* C14: when the row count of W differs from the length of the reference
\* margin or of the reference list, or its column count from the length of the
\* test margin or of the test list, compute_link_mat fails: the run never has
\* a link matrix nor a result, and stops in the failed state.
C14_MismatchedLengthsFatal ==
    Mismatched =>
        /\ pc \in {"link", "failed"}
        /\ link_mat = None
        /\ result = None

\* A failed call on arguments the loops could have run over without any index
\* error: only the reference list is longer than the other row lengths.
C14_Witness ==
    /\ pc = "failed"
    /\ reflen(weight_mat) = 1 /\ len(ref_margin_vect) = 1
    /\ len(ref_data_vect) = 2
    /\ testlen(weight_mat) = 1 /\ len(test_margin_vect) = 1
    /\ len(test_data_vect) = 1
    /\ weight_mat.cell[<< 0, 0 >>] = 1
    /\ link_mat = None /\ result = None

---------------------------------------------------------------------------
(* Order of evaluation inside a stage *)

\* What the sequential row-major loops compute from the two lists.
SeqW == compute_weight_mat(ref_data_vect, test_data_vect)
SeqRefMargin == compute_ref_margin_vect(SeqW)
SeqTestMargin == compute_test_margin_vect(SeqW)
SeqL ==
    compute_link_mat(SeqW, SeqRefMargin, SeqTestMargin, ref_data_vect,
                     test_data_vect)

\* C15: whatever the order in which the cells of a stage are computed, each
\* cell gets the value the sequential loops give it, and once a stage is
\* complete its output (W, the margins, L, the metrics) is the sequential one,
\* each stage starting after the previous one is complete.
C15_OrderIndependence ==
    /\ pc = "par_weight" =>
          \A ij \in DOMAIN weight_mat.cell :
              weight_mat.cell[ij] = SeqW.cell[ij]
    /\ pc \in {"par_margin", "par_link", "stats", "done"} =>
          weight_mat = SeqW
    /\ pc = "par_margin" =>
          /\ \A i \in DOMAIN ref_margin_vect :
                ref_margin_vect[i] = SeqRefMargin[i]
          /\ \A j \in DOMAIN test_margin_vect :
                test_margin_vect[j] = SeqTestMargin[j]
    /\ pc \in {"par_link", "stats", "done"} =>
          /\ ref_margin_vect = SeqRefMargin
          /\ test_margin_vect = SeqTestMargin
    /\ pc = "par_link" =>
          \A ij \in DOMAIN link_mat.cell : link_mat.cell[ij] = SeqL.cell[ij]
    /\ pc \in {"stats", "done"} => link_mat = SeqL
    /\ pc = "done" => result = Statistics(SeqL)

\* The link stage has assigned the cell [0, 1] before the cell [0, 0], and the
\* two cells do not have the same value.
C15_Witness ==
    /\ pc = "par_link"
    /\ DOMAIN link_mat.cell = {<< 0, 1 >>}
    /\ link_mat.cell[<< 0, 1 >>]
    /\ ~SeqL.cell[<< 0, 0 >>]
    /\ weight_mat.cell[<< 0, 0 >>] > 0

---------------------------------------------------------------------------
(* Counts of the lists *)

\* The number of loaded annotations the command line lets through.
NumAllowed(v) ==
    Cardinality({ i \in DOMAIN v :
                    \/ args.type_restriction.is_none
                    \/ \E k \in DOMAIN args.type_restriction.list :
                          args.type_restriction.list[k] = v[i].type })

\* C12: count conservation: Cr is the length N of the (possibly filtered,
\* possibly empty) reference list and Ct the length M of the test list,
\* whatever the link matrix holds; N and M are the numbers of loaded
\* annotations whose type passes the restriction.
C12_CountConservation ==
    Done =>
        /\ result.Cr = len(ref_data_vect)
        /\ result.Ct = len(test_data_vect)
        /\ len(ref_data_vect) = NumAllowed(ref_input_vect)
        /\ len(test_data_vect) = NumAllowed(test_input_vect)

\* The filter has removed one of two reference annotations and both test
\* annotations: Cr = 1 and Ct = 0.
C12_Witness ==
    /\ Done
    /\ ~args.type_restriction.is_none
    /\ len(ref_input_vect) = 2 /\ result.Cr = 1
    /\ len(test_input_vect) = 2 /\ result.Ct = 0

---------------------------------------------------------------------------
(* Loading a file with the first compatible driver *)

Loading == pc \in {"load_loop", "load_check", "load_returned", "load_raised"}
Loaded == pc \in {"load_returned", "load_raised"}

\* The drivers whose load does not raise UnsupportedFile, and the first one.
Compatible ==
    { k \in DOMAIN loader.input_drivers :
        loader.input_drivers[k].kind # "UnsupportedFile" }
FirstCompatible == CHOOSE k \in Compatible : \A l \in Compatible : k <= l

\* The drivers are invoked in list order, up to the first compatible one.
InvokedInOrder == loader.invoked = [k \in DOMAIN loader.invoked |-> k]
InvokedUpToFirst == DOMAIN loader.invoked = 0 .. FirstCompatible

NoDriverError ==
    pc = "load_raised" /\ loader.exception = "NoInputDriverCompatibleError"

\* C16: the drivers are tried in list order; the call returns the result of
\* the first driver whose load does not raise UnsupportedFile and invokes no
\* driver after it; it raises NoInputDriverCompatibleError if and only if every
\* driver raised UnsupportedFile or the list is empty.
C16_ReturnsFirstCompatible ==
    /\ Loading => InvokedInOrder
    /\ Loaded =>
          /\ Compatible # {} =>
                /\ InvokedUpToFirst
                /\ pc = "load_returned"
                /\ loader.input_drivers[FirstCompatible].kind = "return"
                /\ loader.returned =
                      ListOption(loader.input_drivers[FirstCompatible].data)
          /\ NoDriverError <=> Compatible = {}

\* C16, amended: same, the first compatible driver's load either returning a
\* list, which the call returns, or raising another exception, which the call
\* lets through.
C16_FirstCompatibleOutcome ==
    /\ Loading => InvokedInOrder
    /\ Loaded =>
          /\ Compatible # {} =>
                /\ InvokedUpToFirst
                /\ IF loader.input_drivers[FirstCompatible].kind = "return"
                   THEN /\ pc = "load_returned"
                        /\ loader.returned =
                              ListOption(
                                loader.input_drivers[FirstCompatible].data)
                   ELSE /\ pc = "load_raised"
                        /\ loader.exception =
                              loader.input_drivers[FirstCompatible].kind
          /\ NoDriverError <=> Compatible = {}

\* The second of three drivers is the first compatible one and returns an
\* empty list, the third one would have returned an annotation: the empty list
\* is returned and the third driver is not invoked.
C16_Witness ==
    /\ pc = "load_returned"
    /\ len(loader.input_drivers) = 3
    /\ loader.input_drivers[0].kind = "UnsupportedFile"
    /\ loader.input_drivers[1].kind = "return"
    /\ len(loader.input_drivers[1].data) = 0
    /\ loader.input_drivers[2].kind = "return"
    /\ len(loader.input_drivers[2].data) = 1
    /\ DOMAIN loader.invoked = {0, 1}
    /\ loader.returned = ListOption(loader.input_drivers[1].data)

---------------------------------------------------------------------------
(* Content of unknown elements *)

\* An element whose tag is not a known tag is open.
UnknownOpen(eltStack) == \E k \in DOMAIN eltStack : eltStack[k] \notin known_tags

\* The event has committed an annotation.
Committed == len(handler'.annotations) > len(handler.annotations)

\* C17: along a well-nested sequence of events, no annotation is committed at
\* the end of a label or image element that has an unknown element among its
\* ancestors, and insideUnk is not None exactly while an unknown element is
\* open.
C17_UnknownContentIgnored ==
    [][pc' = "xml" =>
          /\ Committed => ~UnknownOpen(handler.eltStack)
          /\ ~handler'.insideUnk.is_none <=> UnknownOpen(handler'.eltStack)]_vars

=============================================================================
